---- MODULE Spec2Model ----
(***************************************************************************)
(* Model of src/app/page.tsx (MonthlySpendOverview): the in-memory state   *)
(* of the component (budgets, editingCategory, editValue,                  *)
(* expandedCategory, toast), the event handlers that change it, and the    *)
(* delayed callbacks scheduled by showToast.                               *)
(***************************************************************************)
EXTENDS Integers, Sequences, FiniteSets, TLC

(* ---------------------------------------------------------------------- *)
(* Bounds of the model                                                     *)
(* ---------------------------------------------------------------------- *)

\* The user clicks on the first NumCards cards of the page only.
NumCards == 3

\* Granularity, in ms, with which the passage of time is explored.
TickMs == 3000

\* Transaction lists of up to MaxTx entries are given to the statistics.
MaxTx == 3

\* The amounts and categories of the transactions of those lists.
TxAmounts == {100, 200}
TxCategories == {"Food", "Entertainment", "Shopping"}

\* The numbers a user types into the draft input.
DraftValues == {-500, 5000, -11000}

(* ---------------------------------------------------------------------- *)
(* Program constants                                                       *)
(* ---------------------------------------------------------------------- *)

\* setTimeout(() => setToast(null), 3000)
ToastDuration == 3000

\* null of `string | null`
NULL == "null"

\* null of the toast state
NoToast == [message |-> "", type |-> "null"]

initialBudgets ==
  << [category |-> "Food",          monthlyBudget |-> 8000,  lockedForMonth |-> TRUE],
     [category |-> "Entertainment", monthlyBudget |-> 4000,  lockedForMonth |-> FALSE],
     [category |-> "Shopping",      monthlyBudget |-> 12000, lockedForMonth |-> FALSE],
     [category |-> "Travel / Fuel", monthlyBudget |-> 6000,  lockedForMonth |-> FALSE],
     [category |-> "Medical",       monthlyBudget |-> 3000,  lockedForMonth |-> FALSE],
     [category |-> "Other",         monthlyBudget |-> 5000,  lockedForMonth |-> FALSE] >>

\* id, amount and category of the mock transactions (the date, merchant and
\* source fields are only displayed).
mockTransactions ==
  << [id |-> "1", amount |-> 1250, category |-> "Food"],
     [id |-> "2", amount |-> 890,  category |-> "Food"],
     [id |-> "3", amount |-> 3499, category |-> "Shopping"],
     [id |-> "4", amount |-> 450,  category |-> "Travel / Fuel"],
     [id |-> "5", amount |-> 1200, category |-> "Entertainment"],
     [id |-> "6", amount |-> 560,  category |-> "Medical"],
     [id |-> "7", amount |-> 2100, category |-> "Shopping"],
     [id |-> "8", amount |-> 380,  category |-> "Food"],
     [id |-> "9", amount |-> 850,  category |-> "Travel / Fuel"] >>

\* The categories that have a budget card.
Categories == { initialBudgets[i].category : i \in 1..Len(initialBudgets) }

\* The categories of the cards the user clicks on.
Cards ==
  { initialBudgets[i].category :
      i \in 1..(IF NumCards < Len(initialBudgets) THEN NumCards
                                                  ELSE Len(initialBudgets)) }

(* ---------------------------------------------------------------------- *)
(* State                                                                   *)
(* ---------------------------------------------------------------------- *)

VARIABLES
  budgets,           \* useState<CategoryBudget[]>(initialBudgets)
  editingCategory,   \* useState<string | null>(null)
  editValue,         \* useState<number>(0)
  expandedCategory,  \* useState<string | null>(null)
  toast,             \* useState<{message, type} | null>(null)
  transactions,      \* the transaction list the page computes over
  timers,            \* pending setTimeout callbacks: ms left of each, oldest first
  sinceShow,         \* history: ms since the last showToast call (capped)
  saveCount,         \* history: number of handleSave calls per category
  draftTyped,        \* history: editValue was typed in the edit that is open
  lastOp             \* history: the step taken last (a handler, or a tick)

progVars == <<budgets, editingCategory, editValue, expandedCategory, toast>>
vars == <<budgets, editingCategory, editValue, expandedCategory, toast,
          transactions, timers, sinceShow, saveCount, draftTyped, lastOp>>

Min(a, b) == IF a < b THEN a ELSE b
Max(a, b) == IF a > b THEN a ELSE b

\* The budget entry of a category (categories are unique keys of the list).
BudgetOf(bs, c) == bs[CHOOSE i \in 1..Len(bs) : bs[i].category = c]

Op(name, c) == [op |-> name, category |-> c]

Init ==
  /\ budgets = initialBudgets
  /\ editingCategory = NULL
  /\ editValue = 0
  /\ expandedCategory = NULL
  /\ toast = NoToast
  /\ timers = << >>
  /\ sinceShow = ToastDuration
  /\ saveCount = [c \in Categories |-> 0]
  /\ draftTyped = FALSE
  /\ lastOp = Op("init", NULL)
  /\ transactions = mockTransactions

(* ---------------------------------------------------------------------- *)
(* showToast and the delayed clear                                         *)
(* ---------------------------------------------------------------------- *)

\* Variant: the notification is given the other kind.
ToastOf_AlwaysError(message, type) == [message |-> message, type |-> "error"]

\* setToast({ message, type })
ToastOf(message, type) == [message |-> message, type |-> type]

\* Variant: the pending callbacks are cancelled before the new one is set.
ScheduleClear_CancelsPrevious(ts) == << ToastDuration >>

\* Variant: no callback is scheduled.
ScheduleClear_Never(ts) == ts

\* setTimeout(() => setToast(null), 3000): one more pending callback; the
\* callbacks already pending are left alone.
ScheduleClear(ts) == Append(ts, ToastDuration)

\* Variant: the category is not interpolated into the message.
SaveMessage_NoCategory(category) ==
  "Budget updated & locked for this month!"

\* `Budget for ${category} updated & locked for this month!`
SaveMessage(category) ==
  "Budget for " \o category \o " updated & locked for this month!"

(* ---------------------------------------------------------------------- *)
(* Handlers                                                                *)
(* ---------------------------------------------------------------------- *)

\* Variant: the saved entry is not locked.
SavedBudgets_NoLock(prev, category, value) ==
  [i \in 1..Len(prev) |->
     IF prev[i].category = category
     THEN [prev[i] EXCEPT !.monthlyBudget = value]
     ELSE prev[i]]

\* Variant: the lock is applied to every entry of the list.
SavedBudgets_LockAll(prev, category, value) ==
  [i \in 1..Len(prev) |->
     IF prev[i].category = category
     THEN [prev[i] EXCEPT !.monthlyBudget = value, !.lockedForMonth = TRUE]
     ELSE [prev[i] EXCEPT !.lockedForMonth = TRUE]]

\* Variant: the saved entry is moved to the front of the list.
SavedBudgets_MovesToFront(prev, category, value) ==
  LET i == CHOOSE k \in 1..Len(prev) : prev[k].category = category
  IN  << [prev[i] EXCEPT !.monthlyBudget = value, !.lockedForMonth = TRUE] >>
        \o SubSeq(prev, 1, i - 1) \o SubSeq(prev, i + 1, Len(prev))

\* prev.map(b => b.category === category
\*                  ? { ...b, monthlyBudget: editValue, lockedForMonth: true } : b)
SavedBudgets(prev, category, value) ==
  [i \in 1..Len(prev) |->
     IF prev[i].category = category
     THEN [prev[i] EXCEPT !.monthlyBudget = value, !.lockedForMonth = TRUE]
     ELSE prev[i]]

\* Variant: the edit button does not look at lockedForMonth.
BeginEdit_NoLockCheck(c) ==
  /\ editingCategory # c
  /\ editingCategory' = c
  /\ editValue' = BudgetOf(budgets, c).monthlyBudget
  /\ draftTyped' = FALSE
  /\ lastOp' = Op("beginEdit", c)
  /\ UNCHANGED <<budgets, expandedCategory, toast, transactions, timers,
                 sinceShow, saveCount>>

\* Variant: the edit button keeps the draft that was there.
BeginEdit_KeepsDraft(c) ==
  /\ editingCategory # c
  /\ IF ~BudgetOf(budgets, c).lockedForMonth
     THEN /\ editingCategory' = c
          /\ draftTyped' = FALSE
     ELSE UNCHANGED <<editingCategory, draftTyped>>
  /\ lastOp' = Op("beginEdit", c)
  /\ UNCHANGED <<budgets, editValue, expandedCategory, toast, transactions,
                 timers, sinceShow, saveCount>>

\* The edit button of a card, shown while the card is not in edit mode.
BeginEdit(c) ==
  /\ editingCategory # c
  /\ IF ~BudgetOf(budgets, c).lockedForMonth
     THEN /\ editingCategory' = c
          /\ editValue' = BudgetOf(budgets, c).monthlyBudget
          /\ draftTyped' = FALSE
     ELSE UNCHANGED <<editingCategory, editValue, draftTyped>>
  /\ lastOp' = Op("beginEdit", c)
  /\ UNCHANGED <<budgets, expandedCategory, toast, transactions, timers,
                 sinceShow, saveCount>>

\* onChange of the draft input, rendered only on the card being edited.
UpdateDraft(v) ==
  /\ editingCategory # NULL
  /\ editValue' = v
  /\ draftTyped' = TRUE
  /\ lastOp' = Op("updateDraft", editingCategory)
  /\ UNCHANGED <<budgets, editingCategory, expandedCategory, toast,
                 transactions, timers, sinceShow, saveCount>>

\* Variant: the save button is rendered on every card.
Save_AnyCard(c) ==
  /\ budgets' = SavedBudgets(budgets, c, editValue)
  /\ editingCategory' = NULL
  /\ toast' = ToastOf(SaveMessage(c), "success")
  /\ timers' = ScheduleClear(timers)
  /\ sinceShow' = 0
  /\ saveCount' = [saveCount EXCEPT ![c] = Min(@ + 1, 2)]
  /\ draftTyped' = FALSE
  /\ lastOp' = Op("save", c)
  /\ UNCHANGED <<editValue, expandedCategory, transactions>>

\* Variant: the click on the save button is not stopped and reaches the
\* card, which toggles.
Save_Bubbles(c) ==
  /\ editingCategory = c
  /\ budgets' = SavedBudgets(budgets, c, editValue)
  /\ editingCategory' = NULL
  /\ toast' = ToastOf(SaveMessage(c), "success")
  /\ timers' = ScheduleClear(timers)
  /\ sinceShow' = 0
  /\ saveCount' = [saveCount EXCEPT ![c] = @ + 1]
  /\ draftTyped' = FALSE
  /\ lastOp' = Op("save", c)
  /\ expandedCategory' = (IF expandedCategory = c THEN NULL ELSE c)
  /\ UNCHANGED <<editValue, transactions>>

\* Variant: handleSave leaves the card in edit mode.
Save_KeepsEditing(c) ==
  /\ editingCategory = c
  /\ budgets' = SavedBudgets(budgets, c, editValue)
  /\ toast' = ToastOf(SaveMessage(c), "success")
  /\ timers' = ScheduleClear(timers)
  /\ sinceShow' = 0
  /\ saveCount' = [saveCount EXCEPT ![c] = Min(@ + 1, 2)]
  /\ lastOp' = Op("save", c)
  /\ UNCHANGED <<editingCategory, editValue, expandedCategory, transactions,
                 draftTyped>>

\* The save button, rendered only on the card being edited: handleSave.
\* showToast is called without a type, which defaults to 'success'.
Save(c) ==
  /\ editingCategory = c
  /\ budgets' = SavedBudgets(budgets, c, editValue)
  /\ editingCategory' = NULL
  /\ toast' = ToastOf(SaveMessage(c), "success")
  /\ timers' = ScheduleClear(timers)
  /\ sinceShow' = 0
  /\ saveCount' = [saveCount EXCEPT ![c] = @ + 1]
  /\ draftTyped' = FALSE
  /\ lastOp' = Op("save", c)
  /\ UNCHANGED <<editValue, expandedCategory, transactions>>

\* Variant: the cancel button writes the draft into the budget.
Cancel_CommitsDraft ==
  /\ editingCategory # NULL
  /\ budgets' = SavedBudgets_NoLock(budgets, editingCategory, editValue)
  /\ editingCategory' = NULL
  /\ draftTyped' = FALSE
  /\ lastOp' = Op("cancel", editingCategory)
  /\ UNCHANGED <<editValue, expandedCategory, toast, transactions, timers,
                 sinceShow, saveCount>>

\* The cancel button, rendered only on the card being edited.
Cancel ==
  /\ editingCategory # NULL
  /\ editingCategory' = NULL
  /\ draftTyped' = FALSE
  /\ lastOp' = Op("cancel", editingCategory)
  /\ UNCHANGED <<budgets, editValue, expandedCategory, toast, transactions,
                 timers, sinceShow, saveCount>>

\* Variant: a click on a card always expands it.
Toggled_AlwaysExpands(expanded, c) == c

\* setExpandedCategory(isExpanded ? null : budget.category), where
\* isExpanded = (expandedCategory === budget.category)
Toggled(expanded, c) == IF expanded = c THEN NULL ELSE c

\* Click on a card.
Toggle(c) ==
  /\ expandedCategory' = Toggled(expandedCategory, c)
  /\ lastOp' = Op("toggle", c)
  /\ UNCHANGED <<budgets, editingCategory, editValue, toast, transactions,
                 timers, sinceShow, saveCount, draftTyped>>

\* The oldest pending callback is due and runs: setToast(null).
TimerFire ==
  /\ timers # << >>
  /\ Head(timers) = 0
  /\ toast' = NoToast
  /\ timers' = Tail(timers)
  /\ lastOp' = Op("timer", NULL)
  /\ UNCHANGED <<budgets, editingCategory, editValue, expandedCategory,
                 transactions, sinceShow, saveCount, draftTyped>>

\* TickMs pass without any handler running.
Tick ==
  /\ timers' = [i \in 1..Len(timers) |-> Max(timers[i] - TickMs, 0)]
  /\ sinceShow' = Min(sinceShow + TickMs, ToastDuration)
  /\ lastOp' = Op("tick", NULL)
  /\ UNCHANGED <<budgets, editingCategory, editValue, expandedCategory,
                 toast, transactions, saveCount, draftTyped>>

Next ==
  \/ \E c \in Cards : BeginEdit(c)
  \/ \E v \in DraftValues : UpdateDraft(v)
  \/ \E c \in Cards : Save(c)
  \/ Cancel
  \/ \E c \in Cards : Toggle(c)
  \/ TimerFire
  \/ Tick

Spec == Init /\ [][Next]_vars

\* The event loop runs a callback that is due, and time passes.
SpecLive == Spec /\ WF_vars(TimerFire) /\ WF_vars(Tick)

(* ---------------------------------------------------------------------- *)
(* Derived values, recomputed from budgets and transactions on each render *)
(* ---------------------------------------------------------------------- *)

\* txs.reduce((sum, t) => sum + t.amount, 0)
RECURSIVE SumAmounts(_)
SumAmounts(txs) ==
  IF txs = << >> THEN 0
  ELSE SumAmounts(SubSeq(txs, 1, Len(txs) - 1)) + txs[Len(txs)].amount

\* budgets.reduce((sum, b) => sum + b.monthlyBudget, 0)
RECURSIVE SumBudgets(_)
SumBudgets(bs) ==
  IF bs = << >> THEN 0
  ELSE SumBudgets(SubSeq(bs, 1, Len(bs) - 1)) + bs[Len(bs)].monthlyBudget

\* txs.filter(t => t.category === category)
RECURSIVE FilterCategory(_, _)
FilterCategory(txs, category) ==
  IF txs = << >> THEN << >>
  ELSE LET rest == FilterCategory(Tail(txs), category)
       IN  IF Head(txs).category = category THEN << Head(txs) >> \o rest
           ELSE rest

\* Math.round((num / den) * 100) for den > 0: the nearest integer, a half
\* rounded up.
RoundPercent(num, den) == (200 * num + den) \div (2 * den)

totalBudget == SumBudgets(budgets)
totalSpent == SumAmounts(transactions)

\* Variant: a budget of zero or less counts as fully spent.
spentPercentage_ZeroBudgetFull ==
  IF totalBudget > 0 THEN RoundPercent(totalSpent, totalBudget) ELSE 100

\* totalBudget > 0 ? Math.round((totalSpent / totalBudget) * 100) : 0
spentPercentage ==
  IF totalBudget > 0 THEN RoundPercent(totalSpent, totalBudget) ELSE 0

getSpentByCategory(category) ==
  SumAmounts(FilterCategory(transactions, category))

\* Variant: an amount replaces the amount recorded for its category.
RECURSIVE SpendMap_Overwrites(_)
SpendMap_Overwrites(txs) ==
  IF txs = << >> THEN << >>
  ELSE LET m == SpendMap_Overwrites(SubSeq(txs, 1, Len(txs) - 1))
           t == txs[Len(txs)]
       IN  IF \E i \in 1..Len(m) : m[i].category = t.category
           THEN [i \in 1..Len(m) |->
                   IF m[i].category = t.category
                   THEN [m[i] EXCEPT !.amount = t.amount]
                   ELSE m[i]]
           ELSE Append(m, [category |-> t.category, amount |-> t.amount])

\* for (const t of txs) map[t.category] = (map[t.category] || 0) + t.amount;
\* Object.entries(map): the keys in the order in which they were first set.
RECURSIVE SpendMap(_)
SpendMap(txs) ==
  IF txs = << >> THEN << >>
  ELSE LET m == SpendMap(SubSeq(txs, 1, Len(txs) - 1))
           t == txs[Len(txs)]
       IN  IF \E i \in 1..Len(m) : m[i].category = t.category
           THEN [i \in 1..Len(m) |->
                   IF m[i].category = t.category
                   THEN [m[i] EXCEPT !.amount = @ + t.amount]
                   ELSE m[i]]
           ELSE Append(m, [category |-> t.category, amount |-> 0 + t.amount])

\* Variant: an entry is placed before the entries of the same amount.
InsertDesc_BeforeEqual(sorted, e) ==
  LET k == Cardinality({i \in 1..Len(sorted) : sorted[i].amount > e.amount})
  IN  SubSeq(sorted, 1, k) \o << e >> \o SubSeq(sorted, k + 1, Len(sorted))

\* One step of a stable sort by (a, b) => b.amount - a.amount: the entry goes
\* behind every entry whose amount is not smaller.
InsertDesc(sorted, e) ==
  LET k == Cardinality({i \in 1..Len(sorted) : sorted[i].amount >= e.amount})
  IN  SubSeq(sorted, 1, k) \o << e >> \o SubSeq(sorted, k + 1, Len(sorted))

\* entries.sort((a, b) => b.amount - a.amount); Array.prototype.sort is stable.
RECURSIVE SortDesc(_)
SortDesc(entries) ==
  IF entries = << >> THEN << >>
  ELSE InsertDesc(SortDesc(SubSeq(entries, 1, Len(entries) - 1)),
                  entries[Len(entries)])

\* The category and amount of each entry (percentageOfTotal is only displayed).
categoryStats == SortDesc(SpendMap(transactions))

\* Variant: the thresholds are compared with >=.
ProgressColor_AtLeast(percentage) ==
  IF percentage >= 90 THEN "text-rose-500"
  ELSE IF percentage >= 70 THEN "text-amber-500"
  ELSE "text-sky-500"

\* className of the arc of CircularProgress
ProgressColor(percentage) ==
  IF percentage > 90 THEN "text-rose-500"
  ELSE IF percentage > 70 THEN "text-amber-500"
  ELSE "text-sky-500"

\* className of the badge under the indicator
BadgeColor(percentage) ==
  IF percentage > 90 THEN "text-rose-700"
  ELSE IF percentage > 70 THEN "text-amber-700"
  ELSE "text-emerald-700"

\* Variant: the percentage of a card is capped at 100.
CardPercentage_Clamped(budget) ==
  IF budget.monthlyBudget > 0
  THEN Min(RoundPercent(getSpentByCategory(budget.category),
                        budget.monthlyBudget), 100)
  ELSE 0

\* budget.monthlyBudget > 0 ? Math.round((spent / budget.monthlyBudget) * 100) : 0
CardPercentage(budget) ==
  IF budget.monthlyBudget > 0
  THEN RoundPercent(getSpentByCategory(budget.category), budget.monthlyBudget)
  ELSE 0

\* width: `${Math.min(percentage, 100)}%`
BarWidth(budget) == Min(CardPercentage(budget), 100)

(* ---------------------------------------------------------------------- *)
(* The statistics over any transaction list                                *)
(* ---------------------------------------------------------------------- *)

\* The transaction lists of at most MaxTx entries.
TxLists ==
  UNION { { [i \in 1..n |-> [id |-> ToString(i), amount |-> f[i][1],
                              category |-> f[i][2]]] :
              f \in [1..n -> TxAmounts \X TxCategories] } : n \in 0..MaxTx }

InitStats ==
  /\ budgets = initialBudgets
  /\ editingCategory = NULL
  /\ editValue = 0
  /\ expandedCategory = NULL
  /\ toast = NoToast
  /\ timers = << >>
  /\ sinceShow = ToastDuration
  /\ saveCount = [c \in Categories |-> 0]
  /\ draftTyped = FALSE
  /\ lastOp = Op("init", NULL)
  /\ transactions \in TxLists \cup {mockTransactions}

\* The cards are expanded and collapsed over the list.
NextStats == \E c \in Cards : Toggle(c)

SpecStats == InitStats /\ [][NextStats]_vars

(* ---------------------------------------------------------------------- *)
(* Properties                                                              *)
(* ---------------------------------------------------------------------- *)

Locked(bs, c) == BudgetOf(bs, c).lockedForMonth
Budget(bs, c) == BudgetOf(bs, c).monthlyBudget

\* C1: each category's monthlyBudget is written by at most one save in a
\* session, and a step that changes a category's budget value is that
\* category's first save.
C1_AtMostOneSave ==
  /\ [](\A c \in Categories : saveCount[c] <= 1)
  /\ [][\A c \in Categories :
          Budget(budgets', c) # Budget(budgets, c)
            => saveCount[c] = 0 /\ saveCount'[c] = 1]_vars

C1_Witness ==
  \E c \in Categories :
    /\ saveCount[c] = 1
    /\ Budget(budgets, c) \in DraftValues
    /\ editingCategory \notin {NULL, c}
    /\ lastOp.op = "updateDraft"

\* C2: once a category has been saved, every later beginEdit of it changes
\* none of editingCategory, editValue, budgets, expandedCategory and toast.
C2_BeginEditAfterSaveRejected ==
  [][\A c \in Categories :
       (lastOp' = Op("beginEdit", c) /\ saveCount[c] >= 1)
         => UNCHANGED progVars]_vars

C2_Witness ==
  \E c \in Categories :
    /\ lastOp = Op("beginEdit", c)
    /\ saveCount[c] = 1
    /\ toast # NoToast

\* C3: lockedForMonth never goes from true to false, and it goes from false
\* to true only in the save of that category.
C3_LockIrreversible ==
  [][\A c \in Categories :
       /\ Locked(budgets, c) => Locked(budgets', c)
       /\ (~Locked(budgets, c) /\ Locked(budgets', c))
            => lastOp' = Op("save", c)]_vars

C3_Witness ==
  \E c \in Categories :
    /\ Locked(budgets, c)
    /\ ~Locked(initialBudgets, c)
    /\ lastOp = Op("toggle", c)
    /\ expandedCategory = c
    /\ toast = NoToast

\* C4: a category's monthlyBudget changes only in a step that takes its
\* lockedForMonth from false to true, and Food, seeded as locked, keeps its
\* seeded budget of 8000.
C4_BudgetChangesOnlyWhenLocking ==
  /\ [](Budget(budgets, "Food") = 8000 /\ Locked(budgets, "Food"))
  /\ [][\A c \in Categories :
          Budget(budgets', c) # Budget(budgets, c)
            => ~Locked(budgets, c) /\ Locked(budgets', c)]_vars

C4_Witness ==
  /\ lastOp = Op("beginEdit", "Food")
  /\ \E c \in Categories :
       Locked(budgets, c) /\ Budget(budgets, c) # Budget(initialBudgets, c)

\* The message of the success notification, per category.
ExpectedMessage(c) ==
  CASE c = "Food" -> "Budget for Food updated & locked for this month!"
    [] c = "Entertainment" ->
         "Budget for Entertainment updated & locked for this month!"
    [] c = "Shopping" -> "Budget for Shopping updated & locked for this month!"
    [] c = "Travel / Fuel" ->
         "Budget for Travel / Fuel updated & locked for this month!"
    [] c = "Medical" -> "Budget for Medical updated & locked for this month!"
    [] c = "Other" -> "Budget for Other updated & locked for this month!"

\* C5: save(category) writes editValue into the category's monthlyBudget,
\* locks it, clears editingCategory and makes the notification the success
\* message that names the category.
C5_SaveEffect ==
  [][\A c \in Categories :
       lastOp' = Op("save", c)
         => /\ Budget(budgets', c) = editValue
            /\ Locked(budgets', c)
            /\ editingCategory' = NULL
            /\ toast' = [message |-> ExpectedMessage(c), type |-> "success"]]_vars

C5_Witness ==
  /\ lastOp = Op("save", "Entertainment")
  /\ Budget(budgets, "Entertainment") = 5000
  /\ Locked(budgets, "Entertainment")
  /\ editingCategory = NULL
  /\ toast.message = "Budget for Entertainment updated & locked for this month!"

\* C6: beginEdit of an unlocked category puts it in edit mode with editValue
\* its current monthlyBudget; beginEdit of a locked category changes nothing.
C6_BeginEditEffect ==
  [][\A c \in Categories :
       lastOp' = Op("beginEdit", c)
         => IF ~Locked(budgets, c)
            THEN /\ editingCategory' = c
                 /\ editValue' = Budget(budgets, c)
                 /\ UNCHANGED <<budgets, expandedCategory, toast>>
            ELSE UNCHANGED progVars]_vars

C6_Witness ==
  /\ lastOp = Op("beginEdit", "Shopping")
  /\ editingCategory = "Shopping"
  /\ editValue = 12000
  /\ Budget(budgets, "Entertainment") = -500

\* C7: cancel clears editingCategory and changes no budget entry, whatever
\* the draft was, and the cancelled category is still unlocked.
C7_CancelKeepsBudgets ==
  [][lastOp'.op = "cancel"
       => /\ editingCategory' = NULL
          /\ budgets' = budgets
          /\ lastOp'.category = editingCategory
          /\ ~Locked(budgets', editingCategory)]_vars

C7_Witness ==
  /\ lastOp.op = "cancel"
  /\ editValue \in DraftValues
  /\ editValue # Budget(budgets, lastOp.category)
  /\ editingCategory = NULL

\* C8: every monthlyBudget is non-negative in every reachable state.
C8_BudgetsNonNegative ==
  \A i \in 1..Len(budgets) : budgets[i].monthlyBudget >= 0

\* C9: a show leaves the delayed clears that are pending in place and adds
\* its own, and a delayed clear that runs removes whatever notification is
\* current.
C9_EarlierClearNotCancelled ==
  [][/\ lastOp'.op = "save"
        => /\ Len(timers') = Len(timers) + 1
           /\ SubSeq(timers', 1, Len(timers)) = timers
           /\ timers'[Len(timers')] = ToastDuration
     /\ lastOp'.op = "timer" => toast' = NoToast]_vars

\* The clear of an earlier show has removed the notification less than 3000
\* ms after the last show, whose own clear is still pending.
C9_Witness ==
  /\ lastOp.op = "timer"
  /\ toast = NoToast
  /\ sinceShow < ToastDuration
  /\ Len(timers) = 1
  /\ timers[1] > 0

\* C10: while a notification is shown a delayed clear is pending, and every
\* notification is eventually removed.
C10_AutoDismiss ==
  /\ [](toast # NoToast => timers # << >>)
  /\ (toast # NoToast) ~> (toast = NoToast)

C10_Witness ==
  /\ lastOp.op = "timer"
  /\ toast = NoToast
  /\ timers = << >>
  /\ sinceShow = ToastDuration
  /\ \E c \in Categories : saveCount[c] = 1

\* C11 (as stated): toggle(c) twice returns expandedCategory to the value it
\* had, whatever that value was.
C11_ToggleTwiceRestores ==
  \A c \in Cards :
    Toggled(Toggled(expandedCategory, c), c) = expandedCategory

\* C11 (amended): toggle(c) twice returns expandedCategory to the value it had
\* when that value was none or c; when another category was expanded, none is
\* expanded afterwards.
C11_ToggleTwice ==
  \A c \in Cards :
    LET after == Toggled(Toggled(expandedCategory, c), c)
    IN  IF expandedCategory \in {NULL, c}
        THEN after = expandedCategory
        ELSE after = NULL

C11_Witness ==
  /\ lastOp = Op("toggle", "Entertainment")
  /\ expandedCategory = NULL
  /\ editingCategory = NULL
  /\ toast = NoToast

\* C12 (as stated): the indicator is normal below 70, warning from 70 to 90
\* inclusive and danger above 90.
C12_TierFrom70 ==
  LET p == spentPercentage
  IN  /\ ProgressColor(p) = IF p < 70 THEN "text-sky-500"
                            ELSE IF p <= 90 THEN "text-amber-500"
                            ELSE "text-rose-500"
      /\ BadgeColor(p) = IF p < 70 THEN "text-emerald-700"
                         ELSE IF p <= 90 THEN "text-amber-700"
                         ELSE "text-rose-700"

\* C12 (amended): the indicator is normal up to 70 inclusive, warning from 71
\* to 90 inclusive and danger above 90.
C12_TierAbove70 ==
  LET p == spentPercentage
  IN  /\ ProgressColor(p) = IF p <= 70 THEN "text-sky-500"
                            ELSE IF p <= 90 THEN "text-amber-500"
                            ELSE "text-rose-500"
      /\ BadgeColor(p) = IF p <= 70 THEN "text-emerald-700"
                         ELSE IF p <= 90 THEN "text-amber-700"
                         ELSE "text-rose-700"

C12_Witness ==
  /\ spentPercentage = 70
  /\ ProgressColor(spentPercentage) = "text-sky-500"
  /\ lastOp.op = "save"

\* p is x / y * 100 rounded to the nearest integer, a half rounded up (y > 0).
IsRoundedPercent(p, x, y) ==
  /\ (2 * p - 1) * y <= 200 * x
  /\ 200 * x < (2 * p + 1) * y

\* C13: totalBudget is the sum of the monthlyBudget of the budget entries,
\* and spentPercentage is totalSpent / totalBudget * 100 rounded when
\* totalBudget > 0 and 0 when totalBudget is zero or less.
C13_TotalsAndPercentage ==
  /\ totalBudget = Budget(budgets, "Food") + Budget(budgets, "Entertainment")
                     + Budget(budgets, "Shopping")
                     + Budget(budgets, "Travel / Fuel")
                     + Budget(budgets, "Medical") + Budget(budgets, "Other")
  /\ totalSpent = 11179
  /\ IF totalBudget > 0
     THEN IsRoundedPercent(spentPercentage, totalSpent, totalBudget)
     ELSE spentPercentage = 0

C13_Witness ==
  /\ totalBudget = 0
  /\ spentPercentage = 0
  /\ Budget(budgets, "Entertainment") = -11000
  /\ lastOp = Op("save", "Shopping")

\* C14: the amounts of categoryStats sum to totalSpent, each amount is the
\* spentByCategory of its category, and there is exactly one entry per
\* category that appears in the transactions.
C14_StatsPartition ==
  LET cs == categoryStats
  IN  /\ SumAmounts(cs) = totalSpent
      /\ \A i \in 1..Len(cs) : cs[i].amount = getSpentByCategory(cs[i].category)
      /\ { cs[i].category : i \in 1..Len(cs) }
           = { transactions[j].category : j \in 1..Len(transactions) }
      /\ \A i, j \in 1..Len(cs) : cs[i].category = cs[j].category => i = j

C14_Witness ==
  /\ transactions = mockTransactions
  /\ Len(categoryStats) = 5
  /\ categoryStats[1] = [category |-> "Shopping", amount |-> 5599]
  /\ categoryStats[2] = [category |-> "Food", amount |-> 2520]
  /\ totalSpent = 11179
  /\ expandedCategory = "Food"

\* C15: the notification is none or has kind success.
C15_NoErrorToast ==
  toast = NoToast \/ toast.type = "success"

C15_Witness ==
  /\ toast # NoToast
  /\ toast.type = "success"
  /\ lastOp.op = "save"
  /\ Budget(budgets, lastOp.category) < 0

\* C16: the percentage of a card is spent / monthlyBudget * 100 rounded when
\* monthlyBudget > 0 and 0 otherwise, it is not capped at 100, the bar width
\* is the smaller of it and 100, and Food (2520 of 8000) reports 32.
C16_CardPercentage ==
  /\ \A i \in 1..Len(budgets) :
       LET b == budgets[i]
           p == CardPercentage(b)
       IN  /\ IF b.monthlyBudget > 0
              THEN IsRoundedPercent(p, getSpentByCategory(b.category),
                                    b.monthlyBudget)
              ELSE p = 0
           /\ BarWidth(b) = IF p > 100 THEN 100 ELSE p
  /\ getSpentByCategory("Food") = 2520
  /\ CardPercentage(BudgetOf(budgets, "Food")) = 32

C16_Witness ==
  /\ CardPercentage(BudgetOf(budgets, "Shopping")) = 112
  /\ BarWidth(BudgetOf(budgets, "Shopping")) = 100
  /\ CardPercentage(BudgetOf(budgets, "Entertainment")) = 0
  /\ Budget(budgets, "Entertainment") < 0

\* The place of the first transaction of a category.
FirstAppearance(category) ==
  CHOOSE j \in 1..Len(transactions) :
    /\ transactions[j].category = category
    /\ \A k \in 1..(j - 1) : transactions[k].category # category

\* C17: categoryStats is in descending order of amount, and entries of the
\* same amount are in the order in which their categories first appear in
\* the transactions.
C17_StatsOrder ==
  LET cs == categoryStats
  IN  \A i, j \in 1..Len(cs) :
        i < j =>
          /\ cs[i].amount >= cs[j].amount
          /\ cs[i].amount = cs[j].amount
               => FirstAppearance(cs[i].category) < FirstAppearance(cs[j].category)

C17_Witness ==
  /\ Len(categoryStats) = 3
  /\ categoryStats[1].amount > categoryStats[2].amount
  /\ categoryStats[2].amount = categoryStats[3].amount
  /\ categoryStats[1].category = transactions[Len(transactions)].category
  /\ categoryStats[2].category = transactions[1].category
  /\ lastOp.op = "toggle"

\* C18: save(category) changes only the entry of that category: every other
\* entry, and the number and order of the entries, stay as they were.
C18_SaveFrame ==
  [][\A c \in Categories :
       lastOp' = Op("save", c)
         => /\ Len(budgets') = Len(budgets)
            /\ \A i \in 1..Len(budgets) :
                 /\ budgets'[i].category = budgets[i].category
                 /\ budgets[i].category # c => budgets'[i] = budgets[i]]_vars

C18_Witness ==
  /\ lastOp = Op("save", "Shopping")
  /\ budgets[3] = [category |-> "Shopping", monthlyBudget |-> -11000,
                   lockedForMonth |-> TRUE]
  /\ budgets[2] = initialBudgets[2]
  /\ budgets[1] = initialBudgets[1]

\* C19: the category in edit mode is never locked, and a save is applied only
\* to the category in edit mode, which is unlocked.
C19_EditingIsUnlocked ==
  /\ [](editingCategory # NULL => ~Locked(budgets, editingCategory))
  /\ [][\A c \in Categories :
          lastOp' = Op("save", c)
            => editingCategory = c /\ ~Locked(budgets, c)]_vars

C19_Witness ==
  /\ lastOp = Op("save", "Shopping")
  /\ saveCount["Entertainment"] = 1
  /\ saveCount["Shopping"] = 1
  /\ editingCategory = NULL

\* C20: beginEdit(B) while A is in edit mode moves edit mode to B with
\* editValue B's monthlyBudget and leaves A's entry as it was, unlocked; and
\* the value a save writes is the category's previous monthlyBudget or a
\* draft typed since the beginEdit of that category.
C20_NoLeftoverDraft ==
  /\ [](editingCategory # NULL /\ ~draftTyped
          => editValue = Budget(budgets, editingCategory))
  /\ [][\A a, b \in Categories :
          (lastOp' = Op("beginEdit", b) /\ editingCategory = a
             /\ ~Locked(budgets, b))
            => /\ editingCategory' = b
               /\ editValue' = Budget(budgets, b)
               /\ ~draftTyped'
               /\ BudgetOf(budgets', a) = BudgetOf(budgets, a)
               /\ ~Locked(budgets', a)]_vars
  /\ [][\A c \in Categories :
          lastOp' = Op("save", c)
            => \/ Budget(budgets', c) = Budget(budgets, c)
               \/ draftTyped /\ editingCategory = c
                    /\ Budget(budgets', c) = editValue]_vars

C20_Witness ==
  /\ lastOp = Op("save", "Shopping")
  /\ Budget(budgets, "Shopping") = 12000
  /\ Locked(budgets, "Shopping")
  /\ editValue = 12000
  /\ ~Locked(budgets, "Entertainment")

\* C21: beginEdit, updateDraft, save and cancel leave expandedCategory as it
\* was, and toggle leaves budgets, editingCategory, editValue and the
\* notification as they were.
C21_EditAndExpandIndependent ==
  [][/\ lastOp'.op \in {"beginEdit", "updateDraft", "save", "cancel"}
        => expandedCategory' = expandedCategory
     /\ lastOp'.op = "toggle"
        => UNCHANGED <<budgets, editingCategory, editValue, toast>>]_vars

C21_Witness ==
  /\ lastOp = Op("save", "Shopping")
  /\ expandedCategory = "Shopping"
  /\ Locked(budgets, "Shopping")
  /\ Budget(budgets, "Shopping") = 5000
  /\ editingCategory = NULL

====
